---- MODULE Spec2Model ----
(***************************************************************************)
(* A model of the rust_wm window manager: the State Store (nine tags with  *)
(* ordered window lists and a focus each), the tiler, the event handlers   *)
(* of src/src/events.rs, the display requests of src/src/actions.rs that   *)
(* the handlers issue, and the hotkey table of src/src/keys.rs.            *)
(*                                                                         *)
(* f32 values (the master ratio and its deltas) are kept as integers in    *)
(* hundredths: 0.15 is 15, 0.85 is 85.  The integer cast of a float        *)
(* product truncates and saturates as Rust's `as` does.                    *)
(***************************************************************************)
EXTENDS Integers, Sequences, FiniteSets, TLC

(***************************************************************************)
(* Bounds of the model.                                                    *)
(***************************************************************************)
MaxAdopt == 2       \* frame ids handed out by generate_id
MaxLen == 3         \* longest window list the tiler specification draws
MaxHotkeys == 2     \* configured hotkey entries of the hotkey specification

(***************************************************************************)
(* Program constants.                                                      *)
(***************************************************************************)
NumTags == 9
SPACING == 10
RATIO == 50
RatioMin == 15
RatioMax == 85

None == 0           \* Option::None of a focus / a lookup that found nothing
PointerRoot == 1    \* the window id set_focus_to_root passes to set_input_focus

Tags == 0 .. (NumTags - 1)
Clients == {101, 102}     \* the client windows of the scenarios
FrameOf(n) == 200 + n
Frames == { FrameOf(n) : n \in 1 .. (MaxAdopt + 1) }
Foreign == 900 + 99 \* a window id the store never holds

VARIABLES
    tags,           \* StateHandler.tags: tag -> [windows, focus]
    active_tag,     \* StateHandler.active_tag
    ratio,          \* StateHandler.tiling.ratio, in hundredths
    info,           \* screen width/height, bar height, gap (static TilingInfo)
    input_focus,    \* the server's input focus window
    mapped,         \* windows the manager's map/unmap requests left mapped
    frames,         \* frame windows that exist on the server
    next_id,        \* number of ids generate_id has handed out
    queue,          \* UnmapNotify events the server generated, not yet handled
    hotkeys,        \* KeyHandler.hotkeys: the built table
    config,         \* the configured hotkey entries the table was built from
    key,            \* the last KeyPress handled and the action it resolved to
    given,          \* the window lists the operation under study started from
    pc              \* position of the specification's script

vars == <<tags, active_tag, ratio, info, input_focus, mapped, frames, next_id,
          queue, hotkeys, config, key, given, pc>>

(***************************************************************************)
(* Integer helpers.                                                        *)
(***************************************************************************)
Clamp(v, lo, hi) == IF v < lo THEN lo ELSE IF v > hi THEN hi ELSE v
U16(v) == v % 65536
I16(v) == LET m == v % 65536 IN IF m >= 32768 THEN m - 65536 ELSE m
\* `f as u16` / `f as i16` of a float f = num/100: truncate, then saturate.
Trunc100(num) == IF num >= 0 THEN num \div 100 ELSE -((-num) \div 100)
FloatAsU16(num) == Clamp(Trunc100(num), 0, 65535)
FloatAsI16(num) == Clamp(Trunc100(num), -32768, 32767)

Last(s) == s[Len(s)]
SeqIndices(s) == 1 .. Len(s)

(***************************************************************************)
(* Window records and the tiler (src/src/state.rs).                        *)
(***************************************************************************)
\* WindowState::new: the record of a client about to be adopted.  The
\* geometry is the client's own; the first refresh overwrites it.
WindowState(window, frame_window) ==
    [window |-> window, frame_window |-> frame_window,
     x |-> 0, y |-> 0, width |-> 1, height |-> 1, group |-> "Stack"]

stack_count(ws) == Cardinality({i \in SeqIndices(ws) : ws[i].group = "Stack"})

tile_master_relative(w, sc, inf, r) ==
    [w EXCEPT
       !.x = I16(w.x + inf.gap),
       !.y = I16(I16(w.y + inf.gap) + I16(inf.bar)),
       !.width = IF sc = 0
                 THEN U16(inf.w - U16(inf.gap * 2))
                 ELSE FloatAsU16(inf.w * (100 - r) - (inf.gap * 2) * 100),
       !.height = U16(U16(inf.h - U16(inf.gap * 2)) - inf.bar),
       !.group = "Master"]

\* The Master arm of tile_windows.
tile_master(w, sc, inf, r) ==
    [w EXCEPT
       !.x = I16(0 + inf.gap),
       !.y = I16(I16(0 + inf.gap) + I16(inf.bar)),
       !.width = IF sc = 0
                 THEN U16(inf.w - U16(inf.gap * 2))
                 ELSE FloatAsU16(inf.w * (100 - r) - (inf.gap * 2) * 100),
       !.height = U16(U16(inf.h - U16(inf.gap * 2)) - inf.bar),
       !.group = "Master"]

tile_stack_no_bar(w, i, sc, inf, r) ==
    [w EXCEPT
       !.x = FloatAsI16(inf.w * (100 - r)),
       !.y = I16(i * (inf.h \div sc) + inf.gap),
       !.width = U16(FloatAsU16(inf.w * r) - U16(inf.gap)),
       !.height = U16(U16(inf.h \div sc) - U16(inf.gap * 2)),
       !.group = "Stack"]

\* The Stack arm of tile_windows; i is the 0-based index in the whole list.
tile_stack(w, i, sc, inf, r) ==
    [w EXCEPT
       !.x = FloatAsI16(inf.w * (100 - r)),
       !.y = IF i = 0
             THEN I16(I16(i * (inf.h \div sc) + inf.gap) + I16(inf.bar))
             ELSE I16(i * (inf.h \div sc)),
       !.width = U16(FloatAsU16(inf.w * r) - U16(inf.gap)),
       !.height = IF i = 0
                  THEN U16(U16(U16(inf.h \div sc) - U16(inf.gap * 2)) - inf.bar)
                  ELSE U16(U16(inf.h \div sc) - U16(inf.gap)),
       !.group = "Stack"]

\* tile_windows: new geometry of every Master and Stack window of the list;
\* any other window is copied unchanged.
tile_windows(ws, inf, r) ==
    LET sc == stack_count(ws)
    IN [i \in SeqIndices(ws) |->
          IF ws[i].group = "Master" THEN tile_master(ws[i], sc, inf, r)
          ELSE IF ws[i].group = "Stack" THEN tile_stack(ws[i], i - 1, sc, inf, r)
          ELSE ws[i]]

set_first_master_others_stack(ws) ==
    [i \in SeqIndices(ws) |->
       IF i = 1 THEN [ws[i] EXCEPT !.group = "Master"]
       ELSE [ws[i] EXCEPT !.group = "Stack"]]

\* set_last_master_others_stack: last element Master, every other Stack.
set_last_master_others_stack(ws) ==
    [i \in SeqIndices(ws) |->
       IF i = Len(ws) - 1 + 1 THEN [ws[i] EXCEPT !.group = "Master"]
       ELSE [ws[i] EXCEPT !.group = "Stack"]]

\* Step (1) of StateHandler::refresh: "mark all non-Floating windows Stack,
\* then promote the last element to Master if present".  Floating is the
\* group the fullscreen handler of events.rs sets; a Floating window that
\* is not the last element keeps its group.
classify(ws) ==
    LET cl == set_last_master_others_stack(ws)
    IN [i \in SeqIndices(ws) |->
          IF ws[i].group = "Floating" /\ i # Len(ws) THEN ws[i] ELSE cl[i]]

\* StateHandler::refresh: classification, then the tiler.
man_refresh(ws, inf, r) == tile_windows(classify(ws), inf, r)

(***************************************************************************)
(* The world a handler runs in: the State Store and the part of the        *)
(* server's state the handlers read or change.  A handler is a function    *)
(* from the world before it to the world after it; gen collects the        *)
(* UnmapNotify events the server generates for the handler's requests.     *)
(***************************************************************************)
World ==
    [tags |-> tags, active_tag |-> active_tag, ratio |-> ratio,
     input_focus |-> input_focus, mapped |-> mapped, frames |-> frames,
     next_id |-> next_id, gen |-> <<>>]

get_active_tag_windows(s) == s.tags[s.active_tag].windows

SetActiveWindows(s, ws) == [s EXCEPT !.tags[s.active_tag].windows = ws]

Matches(w, id) == w.window = id \/ w.frame_window = id

\* get_window_state: the index of the first record of the active tag whose
\* client id or frame id is id; 0 when there is none.
get_window_state(s, id) ==
    LET ws == get_active_tag_windows(s)
        hits == {i \in SeqIndices(ws) : Matches(ws[i], id)}
    IN IF hits = {} THEN 0 ELSE CHOOSE i \in hits : \A j \in hits : i <= j

get_focus(s) == s.tags[s.active_tag].focus

add_window_front(s, w) ==
    [s EXCEPT !.tags[s.active_tag].windows = <<w>> \o @,
              !.tags[s.active_tag].focus = w.window]

\* add_window: append; focus = w.
add_window(s, w) ==
    [s EXCEPT !.tags[s.active_tag].windows = Append(@, w),
              !.tags[s.active_tag].focus = w.window]

\* set_tag_focus_to_master: focus of the active tag = last element, or None.
set_tag_focus_to_master(s) ==
    LET ws == get_active_tag_windows(s)
    IN [s EXCEPT !.tags[s.active_tag].focus =
                     IF Len(ws) = 0 THEN None ELSE Last(ws).window]

PosOf(ws, id) ==
    LET hits == {i \in SeqIndices(ws) : ws[i].window = id}
    IN IF hits = {} THEN 0 ELSE CHOOSE i \in hits : \A j \in hits : i <= j

\* switch_focus_next: focus = (pos(focus) + delta) mod n of the active list.
switch_focus_next(s, delta) ==
    LET ws == get_active_tag_windows(s)
        n == Len(ws)
        p == PosOf(ws, get_focus(s))
    IN IF n = 0 \/ p = 0 THEN s
       ELSE [s EXCEPT !.tags[s.active_tag].focus =
                          ws[(((p - 1) + delta) % n) + 1].window]

SwapAt(ws, i, j) == [ws EXCEPT ![i] = ws[j], ![j] = ws[i]]

swap_master_first(s) ==
    LET ws == get_active_tag_windows(s)
        p == PosOf(ws, get_focus(s))
    IN IF p = 0 THEN s ELSE SetActiveWindows(s, SwapAt(ws, p, 1))

\* swap_master: swap the focused window with the master (last element); a
\* focused master swaps with the element before it.
swap_master(s) ==
    LET ws == get_active_tag_windows(s)
        n == Len(ws)
        p == PosOf(ws, get_focus(s))
    IN IF p = 0 THEN s
       ELSE IF p = n THEN (IF n > 1 THEN SetActiveWindows(s, SwapAt(ws, n - 1, n)) ELSE s)
       ELSE SetActiveWindows(s, SwapAt(ws, p, n))

(***************************************************************************)
(* Display requests (src/src/actions.rs).                                  *)
(***************************************************************************)
\* map: map the frame, then the client.
conn_map(s, w) == [s EXCEPT !.mapped = @ \cup {w.frame_window, w.window}]

\* unmap: unmap the client, then the frame.  The server reports an
\* UnmapNotify for each window that was mapped.
conn_unmap(s, w) ==
    [s EXCEPT !.mapped = @ \ {w.window, w.frame_window},
              !.gen = @ \o (IF w.window \in s.mapped THEN <<w.window>> ELSE <<>>)
                        \o (IF w.frame_window \in s.mapped
                            THEN <<w.frame_window>> ELSE <<>>)]

\* create_frame_of_window: create the frame, reparent the client, map both.
create_frame_of_window(s, w) ==
    conn_map([s EXCEPT !.frames = @ \cup {w.frame_window}], w)

\* destroy_window: client back to the root, frame destroyed.  Reparenting a
\* mapped client unmaps and remaps it, destroying a mapped frame unmaps it.
destroy_window(s, w) ==
    [s EXCEPT !.frames = @ \ {w.frame_window},
              !.mapped = @ \ {w.frame_window},
              !.gen = @ \o (IF w.window \in s.mapped THEN <<w.window>> ELSE <<>>)
                        \o (IF w.frame_window \in s.mapped
                            THEN <<w.frame_window>> ELSE <<>>)]

set_focus_window(s, w) == [s EXCEPT !.input_focus = w.window]

set_focus_to_root(s) == [s EXCEPT !.input_focus = PointerRoot]

RECURSIVE FoldWindows(_, _, _, _)
\* try_for_each over a window list: Op applied to ws[i], ws[i+1], ...
FoldWindows(Op(_, _), s, ws, i) ==
    IF i > Len(ws) THEN s ELSE FoldWindows(Op, Op(s, ws[i]), ws, i + 1)

map_all(s) == FoldWindows(conn_map, s, get_active_tag_windows(s), 1)

unmap_all(s) == FoldWindows(conn_unmap, s, get_active_tag_windows(s), 1)

(***************************************************************************)
(* The event handlers (src/src/events.rs).                                 *)
(***************************************************************************)
\* refresh_focus: input focus to the focused client of the active tag, to
\* the root sentinel when the tag has no focus.
refresh_focus(s) ==
    LET f == get_focus(s)
        i == get_window_state(s, f)
    IN IF f # None
       THEN (IF i = 0 THEN s ELSE set_focus_window(s, get_active_tag_windows(s)[i]))
       ELSE set_focus_to_root(s)

\* refresh: refresh_focus, StateHandler::refresh, config_all, draw the bar.
refresh(s) ==
    LET s1 == refresh_focus(s)
    IN SetActiveWindows(s1, man_refresh(get_active_tag_windows(s1), info, s1.ratio))

change_active_tag_no_unmap(s, tag) ==
    IF s.active_tag = tag THEN s
    ELSE map_all([s EXCEPT !.active_tag = tag])

\* change_active_tag: unmap the old tag's windows, switch, map the new ones.
change_active_tag(s, tag) ==
    IF s.active_tag = tag THEN s
    ELSE map_all([unmap_all(s) EXCEPT !.active_tag = tag])

Retain(ws, id) == SelectSeq(ws, LAMBDA w : w.window # id)

\* move_window: the record of the window that has the input focus goes to
\* the end of tag's list and leaves the active tag's list.
move_window(s, tag) ==
    LET focus_window == s.input_focus
        i == get_window_state(s, focus_window)
        state == get_active_tag_windows(s)[i]
    IN IF s.active_tag = tag \/ i = 0 THEN s
       ELSE LET s1 == conn_unmap(s, state)
                s2 == [s1 EXCEPT !.tags[tag].windows = Append(@, state)]
                s3 == SetActiveWindows(s2, Retain(get_active_tag_windows(s2), focus_window))
            IN set_tag_focus_to_master(s3)

handle_map_request_no_refresh(s, window) ==
    IF get_window_state(s, window) # 0 THEN s
    ELSE LET id == FrameOf(s.next_id + 1)
             w == WindowState(window, id)
             s1 == [s EXCEPT !.next_id = @ + 1]
         IN add_window(create_frame_of_window(s1, w), w)

\* handle_map_request: adopt a client the active tag does not hold.
handle_map_request(s, window) ==
    IF get_window_state(s, window) # 0 THEN s
    ELSE LET id == FrameOf(s.next_id + 1)
             w == WindowState(window, id)
             s1 == [s EXCEPT !.next_id = @ + 1]
         IN refresh(add_window(create_frame_of_window(s1, w), w))

\* create_frame_of_window for a client that is gone when the checked
\* property request on it is answered: the frame exists, the error is
\* returned before the save-set change, the reparenting and the mapping.
create_frame_of_window_gone(s, w) ==
    [s EXCEPT !.frames = @ \cup {w.frame_window}]

\* handle_map_request for a client that goes away during its adoption.
\* when = "props": the client is gone before the checked property request;
\* the error leaves the handler before add_window.
\* when = "reparent": the client goes after it; the save-set change, the
\* reparenting, the mapping of the client and the focus request are
\* unchecked requests and return no error, the record is added, and the
\* checked configure request of the refresh returns the error.
handle_map_request_gone(s, window, when) ==
    LET id == FrameOf(s.next_id + 1)
        w == WindowState(window, id)
        s1 == [s EXCEPT !.next_id = @ + 1]
    IN IF when = "props" THEN create_frame_of_window_gone(s1, w)
       ELSE LET s2 == [s1 EXCEPT !.frames = @ \cup {id}, !.mapped = @ \cup {id}]
            IN [refresh(add_window(s2, w)) EXCEPT !.input_focus = s.input_focus]

handle_unmap_notify_keep_focus(s, window) ==
    LET i == get_window_state(s, window)
        w == get_active_tag_windows(s)[i]
    IN IF i = 0 THEN s
       ELSE LET s1 == destroy_window(s, w)
            IN refresh(SetActiveWindows(s1, Retain(get_active_tag_windows(s1), window)))

\* handle_unmap_notify: destroy the frame, drop the record, focus the master.
handle_unmap_notify(s, window) ==
    LET i == get_window_state(s, window)
        w == get_active_tag_windows(s)[i]
    IN IF i = 0 THEN s
       ELSE LET s1 == destroy_window(s, w)
                s2 == SetActiveWindows(s1, Retain(get_active_tag_windows(s1), window))
            IN refresh(set_tag_focus_to_master(s2))

\* The actions a hotkey can carry (HotkeyAction).
SwitchTag(n) == [type |-> "SwitchTag", arg |-> n]
MoveWindow(n) == [type |-> "MoveWindow", arg |-> n]
Spawn == [type |-> "Spawn", arg |-> 0]
ExitFocusedWindow == [type |-> "ExitFocusedWindow", arg |-> 0]
ChangeRatio(d) == [type |-> "ChangeRatio", arg |-> d]
NextFocus(d) == [type |-> "NextFocus", arg |-> d]
NextTag(d) == [type |-> "NextTag", arg |-> d]
SwapMaster == [type |-> "SwapMaster", arg |-> 0]

change_ratio_unclamped(r, change) == r + change

\* (ratio + change).clamp(0.15, 0.85)
change_ratio(r, change) == Clamp(r + change, RatioMin, RatioMax)

\* (active_tag as i16 + change).rem_euclid(9), the sum wrapping as an i16
\* sum does in a release build.
next_tag(active, change) == I16(active + change) % NumTags

\* handle_keypress, from the resolved action on.
handle_keypress(s, action) ==
    CASE action.type = "SwitchTag" -> refresh(change_active_tag(s, action.arg - 1))
      [] action.type = "MoveWindow" -> refresh(move_window(s, action.arg - 1))
      [] action.type = "Spawn" -> refresh(s)
      [] action.type = "ExitFocusedWindow" ->
            IF get_focus(s) = None THEN s ELSE refresh(s)
      [] action.type = "ChangeRatio" ->
            refresh([s EXCEPT !.ratio = change_ratio(s.ratio, action.arg)])
      [] action.type = "NextFocus" -> refresh(switch_focus_next(s, action.arg))
      [] action.type = "NextTag" ->
            refresh(change_active_tag(s, next_tag(s.active_tag, action.arg)))
      [] action.type = "SwapMaster" -> refresh(swap_master(s))

kill_focus_root(focus) ==
    <<[type |-> "WM_DELETE_WINDOW", window |-> PointerRoot]>>

\* kill_focus: one WM_PROTOCOLS / WM_DELETE_WINDOW message to the window.
kill_focus(focus) == <<[type |-> "WM_DELETE_WINDOW", window |-> focus]>>

\* The client messages handle_keypress sends.
handle_keypress_messages(s, action) ==
    IF action.type = "ExitFocusedWindow" /\ get_focus(s) # None
    THEN kill_focus(get_focus(s))
    ELSE <<>>

handle_enter_raw(s, child, event) ==
    refresh([s EXCEPT !.tags[s.active_tag].focus = event])

handle_enter_frame(s, child, event) ==
    LET i == get_window_state(s, child)
        s1 == IF i = 0 THEN s ELSE [s EXCEPT !.tags[s.active_tag].focus = child]
        j == get_window_state(s1, event)
        s2 == IF j = 0 THEN s1 ELSE [s1 EXCEPT !.tags[s1.active_tag].focus = event]
    IN refresh(s2)

\* handle_enter: focus the record the entered window belongs to.
handle_enter(s, child, event) ==
    LET i == get_window_state(s, child)
        s1 == IF i = 0 THEN s
              ELSE [s EXCEPT !.tags[s.active_tag].focus =
                                 get_active_tag_windows(s)[i].window]
        j == get_window_state(s1, event)
        s2 == IF j = 0 THEN s1
              ELSE [s1 EXCEPT !.tags[s1.active_tag].focus =
                                  get_active_tag_windows(s1)[j].window]
    IN refresh(s2)

\* handle_config: the request is forwarded; the store is not touched.
handle_config(s, window) == s

\* ConfigureWindowAux::from_configure_request: every field the event's
\* value mask names is copied, sibling and stack_mode included.
from_configure_request(event) ==
    [mask |-> event.value_mask, x |-> event.x, y |-> event.y,
     width |-> event.width, height |-> event.height,
     sibling |-> event.sibling, stack_mode |-> event.stack_mode]

\* ConnectionHandler::handle_config: one ConfigureWindow request.
conn_handle_config(event) ==
    [window |-> event.window, aux |-> from_configure_request(event)]

\* The requests handle_config sends: one for a window get_window_state
\* finds, none for any other window.
handle_config_requests(s, event) ==
    IF get_window_state(s, event.window) # 0 THEN <<conn_handle_config(event)>>
    ELSE <<>>

\* handle_client_message for a _NET_WM_STATE message whose first property
\* is _NET_WM_STATE_FULLSCREEN; data0 is the requested action.
handle_client_message(s, window, data0) ==
    LET i == get_window_state(s, window)
    IN IF i = 0 THEN s
       ELSE IF data0 = 0
            THEN refresh([s EXCEPT !.tags[s.active_tag].windows[i].group = "Stack"])
       ELSE IF data0 = 1
            THEN refresh([s EXCEPT
                    !.tags[s.active_tag].windows[i] =
                        [@ EXCEPT !.group = "Floating", !.x = 0, !.y = 0,
                                  !.width = info.w, !.height = info.h]])
       ELSE s

(***************************************************************************)
(* The loader's clamp (src/src/config.rs) and the hotkey table             *)
(* (src/src/keys.rs).  A modifier string is the sequence of its            *)
(* "|"-separated tokens, a key name the sequence of its characters, a      *)
(* mask the set of its modifier bits, a Latin-1 keysym its character.      *)
(***************************************************************************)
\* Config::from: sizing.ratio.clamp(0.0, 1.0)
config_ratio(r) == Clamp(r, 0, 100)

min_code == 8                               \* setup().min_keycode
max_keycode == 255                          \* setup().max_keycode
max_code == max_keycode - min_code + 1      \* the field KeyHandler::new stores

\* code_to_sym: the keysym in column 0 of a keycode of the keyboard mapping.
code_to_sym(code) ==
    CASE code = 24 -> "q"
      [] code = 36 -> "Return"
      [] code = 43 -> "h"
      [] code = 46 -> "l"
      [] OTHER -> "NoSymbol"

\* sym_to_code: the first keycode of min_code ..= max_code with that keysym.
sym_to_code(sym) ==
    LET hits == {c \in min_code .. max_code : code_to_sym(c) = sym}
    IN IF hits = {} THEN None ELSE CHOOSE c \in hits : \A d \in hits : c <= d

KeyReturn == <<"R", "e", "t", "u", "r", "n">>

modifier_mask(m) ==
    CASE m = "CONTROL" -> {"CONTROL"}
      [] m = "SHIFT" -> {"SHIFT"}
      [] m = "MOD" -> {"MOD4"}
      [] OTHER -> {}

\* the fold of the tokens' masks with bitwise or
parse_modifiers(tokens) == UNION {modifier_mask(tokens[i]) : i \in SeqIndices(tokens)}

\* a named alias, else the keysym of the first character
parse_key(name) == IF name = KeyReturn THEN "Return" ELSE name[1]

\* Hotkey::new
Hotkey(h) ==
    [mask |-> parse_modifiers(h.modifiers), code |-> sym_to_code(parse_key(h.key)),
     action |-> h.action]

\* Hotkey::new expects every keysym to have a keycode.
HasCodes(entries) ==
    \A i \in SeqIndices(entries) : sym_to_code(parse_key(entries[i].key)) # None

\* get_hotkeys: one table entry per configured entry, in order.
get_hotkeys(entries) == [i \in SeqIndices(entries) |-> Hotkey(entries[i])]

get_registered_hotkey_last(table, mask, code_raw) ==
    LET hits == {i \in SeqIndices(table) :
                    mask = table[i].mask /\ code_raw = table[i].code}
    IN IF hits = {} THEN 0 ELSE CHOOSE i \in hits : \A j \in hits : i >= j

\* get_registered_hotkey: the index of the first entry with that mask and
\* keycode; 0 when there is none.
get_registered_hotkey(table, mask, code_raw) ==
    LET hits == {i \in SeqIndices(table) :
                    mask = table[i].mask /\ code_raw = table[i].code}
    IN IF hits = {} THEN 0 ELSE CHOOSE i \in hits : \A j \in hits : i <= j

NoAction == [type |-> "None", arg |-> 0]

(***************************************************************************)
(* Specification Spec: the handlers run on events drawn from small sets.   *)
(***************************************************************************)
DefaultInfo == [w |-> 1000, h |-> 600, bar |-> 20, gap |-> SPACING]

EmptyTags == [t \in Tags |-> [windows |-> <<>>, focus |-> None]]

WindowIds == Clients \cup Frames \cup {Foreign}

TagKeys == {1, NumTags}             \* the n of SwitchTag(n) and MoveWindow(n)
UsedTags == {n - 1 : n \in TagKeys}
FocusDeltas == {-1, 1}
TagDeltas == {-1, 1}
RatioDeltas == {35}

Init ==
    /\ tags = EmptyTags
    /\ active_tag = 0
    /\ ratio = RATIO
    /\ info = DefaultInfo
    /\ input_focus = PointerRoot
    /\ mapped = {}
    /\ frames = {}
    /\ next_id = 0
    /\ queue = <<>>
    /\ hotkeys = <<>>
    /\ config = <<>>
    /\ key = <<>>
    /\ given = <<>>
    /\ pc = "run"

\* The world after a handler becomes the state.
Commit(s) ==
    /\ tags' = s.tags
    /\ active_tag' = s.active_tag
    /\ ratio' = s.ratio
    /\ input_focus' = s.input_focus
    /\ mapped' = s.mapped
    /\ frames' = s.frames
    /\ next_id' = s.next_id
    /\ UNCHANGED <<info, hotkeys, config>>

\* A handler of Spec ran to completion.
Handled(s) == Commit(s) /\ UNCHANGED <<queue, key, given, pc>>

\* A client asks to be mapped.
MapRequest(window) ==
    /\ get_window_state(World, window) # 0 \/ next_id < MaxAdopt
    /\ Handled(handle_map_request(World, window))

\* A window was unmapped (by its client, or it is gone) and the event is
\* handled.
UnmapNotify(window) ==
    Handled(handle_unmap_notify([World EXCEPT !.mapped = @ \ {window}], window))

EnterNotify(child, event) ==
    Handled(handle_enter(World, child, event))

ConfigureRequest(window) ==
    Handled(handle_config(World, window))

ClientMessage(window, data0) ==
    Handled(handle_client_message(World, window, data0))

KeyPress(action) ==
    Handled(handle_keypress(World, action))

KeyActions ==
    {SwitchTag(n) : n \in TagKeys} \cup {MoveWindow(n) : n \in TagKeys}
    \cup {Spawn, ExitFocusedWindow, SwapMaster}
    \cup {ChangeRatio(d) : d \in RatioDeltas}
    \cup {NextFocus(d) : d \in FocusDeltas}

KeyPressAny == \E a \in KeyActions : KeyPress(a)

\* NextTag, for the deltas that lead to one of the tags the model uses.
KeyPressNextTag ==
    \E d \in TagDeltas :
        /\ (active_tag + d) % NumTags \in UsedTags
        /\ KeyPress(NextTag(d))

MapRequestAny == \E w \in Clients : MapRequest(w)
UnmapNotifyAny == \E w \in WindowIds : UnmapNotify(w)
\* An EnterNotify reports the window the event was selected on and, when the
\* pointer is in one of its children, that child.
EnterPairs ==
    {<<None, e>> : e \in WindowIds} \cup {<<c, Foreign>> : c \in Clients}
EnterNotifyAny == \E p \in EnterPairs : EnterNotify(p[1], p[2])
ConfigureRequestAny == \E w \in Clients \cup {Foreign} : ConfigureRequest(w)
\* A client sends the fullscreen message about its own window.
ClientMessageAny == \E w \in Clients, d \in 0 .. 2 : ClientMessage(w, d)

Next ==
    \/ MapRequestAny
    \/ UnmapNotifyAny
    \/ EnterNotifyAny
    \/ ConfigureRequestAny
    \/ ClientMessageAny
    \/ KeyPressAny
    \/ KeyPressNextTag

Spec == Init /\ [][Next]_vars

(***************************************************************************)
(* Properties of Spec.                                                     *)
(***************************************************************************)
Ids(ws) == [i \in SeqIndices(ws) |-> ws[i].window]
GroupsOf(ws) == [i \in SeqIndices(ws) |-> ws[i].group]
Geo(w) == <<w.x, w.y, w.width, w.height>>

\* The places (tag, index) where client c has a record.
Places(c) ==
    {<<t, i>> \in Tags \X (1 .. (2 * MaxAdopt + 2)) :
        i <= Len(tags[t].windows) /\ tags[t].windows[i].window = c}

\* C1: each client id appears in at most one of the nine tags' window
\* lists, and at most once in that list.
C1_TagMembershipUnique == \A c \in Clients : Cardinality(Places(c)) <= 1

\* C2: in every tag, active or not, a focus that is set is the client id of
\* a window of that tag's list.
C2_FocusValid ==
    \A t \in Tags :
        tags[t].focus # None =>
            \E i \in SeqIndices(tags[t].windows) : tags[t].windows[i].window = tags[t].focus

\* C2 witness: two clients were adopted, 101 was unmapped again, and the
\* focus of tag 0 was re-seated on the remaining window 102.
C2_Witness ==
    /\ next_id = 2
    /\ Ids(tags[0].windows) = <<102>>
    /\ tags[0].focus = 102
    /\ Places(101) = {}

\* The state of scenario 2: 101 and 102 adopted in this order on tag 0.
Scenario2 ==
    /\ active_tag = 0
    /\ ratio = RATIO
    /\ info = DefaultInfo
    /\ Ids(tags[0].windows) = <<101, 102>>
    /\ GroupsOf(tags[0].windows) = <<"Stack", "Master">>

\* C6 as stated: after MapRequest 101 and MapRequest 102 the master 102 is
\* at (10, 30, 480, 560) and the stack window 101 at (500, 30, 490, 540).
C6_AsStated ==
    Scenario2 =>
        /\ Geo(tags[0].windows[2]) = <<10, 30, 480, 560>>
        /\ Geo(tags[0].windows[1]) = <<500, 30, 490, 540>>

\* C6 amended: the stack window 101 is 560 high (600 - 2*10 - 20), the same
\* height as the master.
C6_TwoWindows ==
    Scenario2 =>
        /\ Geo(tags[0].windows[2]) = <<10, 30, 480, 560>>
        /\ Geo(tags[0].windows[1]) = <<500, 30, 490, 560>>

\* C6 witness: scenario 2 right after the two adoptions.
C6_Witness == Scenario2 /\ next_id = 2 /\ tags[0].focus = 102

(***************************************************************************)
(* Specification SpecTiler: one refresh of an active-tag list drawn from   *)
(* the lists a handler can hand to refresh: windows that are tiled and     *)
(* windows the fullscreen handler made Floating, at any position.          *)
(***************************************************************************)
TilerInfos ==
    {DefaultInfo, [w |-> 1920, h |-> 1080, bar |-> 18, gap |-> 4],
     [w |-> 640, h |-> 480, bar |-> 15, gap |-> 0]}
TilerRatios == {RatioMin, 35, RATIO, RatioMax}

\* The record of the i-th window before the refresh.
Untiled(i, floating, inf) ==
    IF floating
    THEN [WindowState(100 + i, 200 + i) EXCEPT
             !.group = "Floating", !.width = inf.w, !.height = inf.h]
    ELSE WindowState(100 + i, 200 + i)

TilerLists(inf) ==
    UNION {{[i \in 1 .. n |-> Untiled(i, fl[i], inf)] : fl \in [1 .. n -> BOOLEAN]} :
           n \in 0 .. MaxLen}

InitTilerWith(infos, ratios) ==
    /\ info \in infos
    /\ ratio \in ratios
    /\ given \in TilerLists(info)
    /\ tags = [EmptyTags EXCEPT ![0] =
                  [windows |-> given,
                   focus |-> IF Len(given) = 0 THEN None ELSE Last(given).window]]
    /\ active_tag = 0
    /\ input_focus = PointerRoot
    /\ mapped = {given[i].window : i \in SeqIndices(given)}
                   \cup {given[i].frame_window : i \in SeqIndices(given)}
    /\ frames = {given[i].frame_window : i \in SeqIndices(given)}
    /\ next_id = Len(given)
    /\ queue = <<>>
    /\ hotkeys = <<>>
    /\ config = <<>>
    /\ key = <<>>
    /\ pc = "given"

InitTiler == InitTilerWith(TilerInfos, TilerRatios)

\* The refresh that ends a handler.
Refresh ==
    /\ pc = "given"
    /\ Commit(refresh(World))
    /\ pc' = "tiled"
    /\ UNCHANGED <<queue, key, given>>

SpecTiler == InitTiler /\ [][Refresh]_vars

\* Specification SpecTilerAny: the same refresh with the gaps the loader
\* accepts (sizing.spacing clamps to 0..1000).
AnyInfos ==
    {DefaultInfo, [DefaultInfo EXCEPT !.gap = 0], [DefaultInfo EXCEPT !.gap = 400],
     [DefaultInfo EXCEPT !.gap = 1000]}

InitTilerAny == InitTilerWith(AnyInfos, TilerRatios)

SpecTilerAny == InitTilerAny /\ [][Refresh]_vars

(***************************************************************************)
(* Properties of the classification and the tiler.                         *)
(***************************************************************************)
ActiveWindows == tags[active_tag].windows
HasTiled(ws) == \E i \in SeqIndices(ws) : ws[i].group # "Floating"
MasterIsLast(ws) == {i \in SeqIndices(ws) : ws[i].group = "Master"} = {Len(ws)}

Tiled(ws) == {i \in SeqIndices(ws) : ws[i].group # "Floating"}

Inside(w, inf) ==
    /\ w.x >= inf.gap
    /\ w.y >= inf.gap + inf.bar
    /\ w.x + w.width <= inf.w - inf.gap
    /\ w.y + w.height <= inf.h - inf.gap

Disjoint(a, b) ==
    \/ a.x + a.width <= b.x
    \/ b.x + b.width <= a.x
    \/ a.y + a.height <= b.y
    \/ b.y + b.height <= a.y

\* C4 as stated: the rectangles of the non-Floating windows of a tiled list
\* do not overlap and lie inside [G, W-G] x [G+B, H-G], wherever Floating
\* windows are in the list.
C4_AsStated ==
    pc = "tiled" =>
        /\ \A i \in Tiled(ActiveWindows) : Inside(ActiveWindows[i], info)
        /\ \A i, j \in Tiled(ActiveWindows) :
              i # j => Disjoint(ActiveWindows[i], ActiveWindows[j])

\* The reference geometry of the window at list position i (1-based) of a
\* list of n Master/Stack windows.
RefGeo(i, n, inf, r) ==
    LET S == n - 1
        slot == inf.h \div S
        i0 == i - 1
    IN IF i = n
       THEN <<inf.gap, inf.gap + inf.bar,
              IF n = 1 THEN inf.w - 2 * inf.gap
              ELSE (inf.w * (100 - r)) \div 100 - 2 * inf.gap,
              inf.h - 2 * inf.gap - inf.bar>>
       ELSE <<(inf.w * (100 - r)) \div 100,
              IF i0 = 0 THEN inf.gap + inf.bar ELSE i0 * slot,
              (inf.w * r) \div 100 - inf.gap,
              IF i0 = 0 THEN slot - 2 * inf.gap - inf.bar ELSE slot - inf.gap>>

\* C5 as stated: for every list of Master/Stack windows and every
\* TilingInfo the geometry written is the reference geometry.
C5_AsStated ==
    (pc = "tiled" /\ Tiled(ActiveWindows) = SeqIndices(ActiveWindows)) =>
        \A i \in SeqIndices(ActiveWindows) :
            Geo(ActiveWindows[i]) = RefGeo(i, Len(ActiveWindows), info, ratio)

(***************************************************************************)
(* Specification SpecKeys: a configuration is loaded, the hotkey table is  *)
(* built from it, and KeyPress events are resolved and executed.           *)
(***************************************************************************)
HotkeyEntries ==
    {[modifiers |-> <<"MOD">>, key |-> <<"q">>, action |-> ExitFocusedWindow],
     [modifiers |-> <<"MOD", "ALT">>, key |-> <<"q", "u", "i", "t">>,
      action |-> ChangeRatio(100)],
     [modifiers |-> <<"MOD">>, key |-> <<"l">>, action |-> ChangeRatio(-100)],
     [modifiers |-> <<"MOD">>, key |-> <<"h">>, action |-> ChangeRatio(5)],
     [modifiers |-> <<"CONTROL", "MOD">>, key |-> KeyReturn, action |-> Spawn],
     [modifiers |-> <<"MOD">>, key |-> <<"L">>, action |-> SwapMaster]}

HotkeyConfigs == UNION {[1 .. n -> HotkeyEntries] : n \in 0 .. MaxHotkeys}

\* sizing.ratio as written in the file
ConfigRatios == {-30, 10, RATIO, 170}

InitKeys ==
    /\ config \in [ratio : ConfigRatios, hotkeys : HotkeyConfigs]
    /\ ratio = config_ratio(config.ratio)
    /\ tags = EmptyTags
    /\ active_tag = 0
    /\ info = DefaultInfo
    /\ input_focus = PointerRoot
    /\ mapped = {}
    /\ frames = {}
    /\ next_id = 0
    /\ queue = <<>>
    /\ hotkeys = <<>>
    /\ key = <<>>
    /\ given = <<>>
    /\ pc = "config"

\* KeyHandler::get_hotkeys at start-up.
BuildTable ==
    /\ pc = "config"
    /\ IF HasCodes(config.hotkeys)
       THEN hotkeys' = get_hotkeys(config.hotkeys) /\ pc' = "run"
       ELSE hotkeys' = hotkeys /\ pc' = "panicked"
    /\ UNCHANGED <<tags, active_tag, ratio, info, input_focus, mapped, frames,
                   next_id, queue, config, key, given>>

\* The keys that can be pressed: the grabbed ones and one that is not.
PressedKeys ==
    {<<hotkeys[i].mask, hotkeys[i].code>> : i \in SeqIndices(hotkeys)}
        \cup {<<{}, min_code>>}

\* handle_keypress: resolve the event, run the action, refresh.
KeyPressEvent(state, detail) ==
    /\ pc = "run"
    /\ LET i == get_registered_hotkey(hotkeys, state, detail)
       IN IF i = 0
          THEN /\ key' = <<[state |-> state, detail |-> detail, action |-> NoAction]>>
               /\ UNCHANGED <<tags, active_tag, ratio, info, input_focus, mapped,
                              frames, next_id, hotkeys, config>>
          ELSE /\ key' = <<[state |-> state, detail |-> detail,
                            action |-> hotkeys[i].action]>>
               /\ Commit(handle_keypress(World, hotkeys[i].action))
    /\ UNCHANGED <<queue, given, pc>>

KeyPressEventAny == \E k \in PressedKeys : KeyPressEvent(k[1], k[2])

NextKeys == BuildTable \/ KeyPressEventAny

SpecKeys == InitKeys /\ [][NextKeys]_vars

\* The last KeyPress had the mask and keycode of table entry i.
Hit(i) ==
    /\ key # <<>>
    /\ key[1].state = hotkeys[i].mask
    /\ key[1].detail = hotkeys[i].code

SameKey(i, j) ==
    hotkeys[i].mask = hotkeys[j].mask /\ hotkeys[i].code = hotkeys[j].code

\* C8 as stated: a KeyPress with the mask and keycode of any entry of the
\* built table resolves to that entry's own action.
C8_AsStated ==
    \A i \in SeqIndices(hotkeys) : Hit(i) => key[1].action = hotkeys[i].action

\* C8 amended: a KeyPress with the mask and keycode of a table entry that no
\* earlier entry shares them with resolves to that entry's own action.
C8_FirstEntryResolves ==
    \A i \in SeqIndices(hotkeys) :
        (Hit(i) /\ \A j \in 1 .. (i - 1) : ~SameKey(j, i))
            => key[1].action = hotkeys[i].action

\* C8 witness: two entries with different actions reduce to one mask and
\* keycode, that key was pressed, and the first entry's action ran.
C8_Witness ==
    \E i, j \in SeqIndices(hotkeys) :
        /\ i < j
        /\ SameKey(i, j)
        /\ hotkeys[i].action # hotkeys[j].action
        /\ Hit(j)
        /\ key[1].action = hotkeys[i].action

\* C9: a handled ChangeRatio(delta) leaves ratio = clamp(ratio + delta,
\* 0.15, 0.85), so never below 0.15 and never above 0.85, whatever the
\* ratio and the deltas before it.
C9_ChangeRatioClamps ==
    [][(pc = "run" /\ key' # <<>> /\ key'[1].action.type = "ChangeRatio") =>
          /\ ratio' = Clamp(ratio + key'[1].action.arg, RatioMin, RatioMax)
          /\ RatioMin <= ratio'
          /\ ratio' <= RatioMax]_vars

\* C9 witness: ChangeRatio(+1.0) ran with the ratio already at 0.85 or
\* beyond and the ratio is 0.85.
C9_Witness ==
    /\ key # <<>>
    /\ key[1].action = ChangeRatio(100)
    /\ ratio = RatioMax
    /\ config.ratio > RatioMax

\* C10 as stated: in every reachable state the master ratio is in
\* [0.15, 0.85].
C10_AsStated == RatioMin <= ratio /\ ratio <= RatioMax

(***************************************************************************)
(* Specification SpecRoundTrip: the event loop with the server's queue.    *)
(* Requests of a handler make the server queue UnmapNotify events; the     *)
(* loop handles them in order before it takes an event of a client or the  *)
(* keyboard.  From any state so reached the three tag switches run back    *)
(* to back and the events they caused are handled.                         *)
(***************************************************************************)
Snapshot == [t \in Tags |-> tags[t].windows]

\* An event of a client or the keyboard is handled on an empty queue.
Taken(s) ==
    /\ pc = "run"
    /\ queue = <<>>
    /\ Commit(s)
    /\ queue' = s.gen
    /\ UNCHANGED <<key, given, pc>>

TakeMapRequest ==
    \E w \in Clients :
        /\ get_window_state(World, w) # 0 \/ next_id < MaxAdopt
        /\ Taken(handle_map_request(World, w))

TakeKeyPress ==
    \E a \in {SwitchTag(n) : n \in TagKeys} \cup {MoveWindow(n) : n \in TagKeys} :
        Taken(handle_keypress(World, a))

\* The oldest queued UnmapNotify is handled.
HandleQueued ==
    /\ queue # <<>>
    /\ LET s == handle_unmap_notify(World, Head(queue))
       IN Commit(s) /\ queue' = Tail(queue) \o s.gen
    /\ UNCHANGED <<key, given, pc>>

RoundTrip(a, b) ==
    /\ pc = "run"
    /\ queue = <<>>
    /\ LET s == change_active_tag(change_active_tag(change_active_tag(World, a), b), a)
       IN Commit(s) /\ queue' = s.gen
    /\ given' = Snapshot
    /\ pc' = "drain"
    /\ UNCHANGED key

RoundTripAny == \E a, b \in UsedTags : RoundTrip(a, b)

Drained ==
    /\ pc = "drain"
    /\ queue = <<>>
    /\ pc' = "done"
    /\ UNCHANGED <<tags, active_tag, ratio, info, input_focus, mapped, frames,
                   next_id, queue, hotkeys, config, key, given>>

NextRoundTrip ==
    \/ TakeMapRequest
    \/ TakeKeyPress
    \/ HandleQueued
    \/ RoundTripAny
    \/ Drained

SpecRoundTrip == Init /\ [][NextRoundTrip]_vars

\* C7 as stated: after the three tag switches and the events they caused,
\* every tag's window list is as it was before them.
C7_AsStated == pc = "done" => \A t \in Tags : tags[t].windows = given[t]

(***************************************************************************)
(* Specification SpecTagWalk: tag keys with the arguments a configuration  *)
(* can carry (the loader copies hotkey actions as they are), then a walk   *)
(* of NextTag presses from the tag so reached.  An index outside the nine  *)
(* tags panics at the first tags[..] access; an i16 sum that overflows     *)
(* panics in a debug build and wraps in a release build.                   *)
(***************************************************************************)
TagArgs == {1, NumTags, NumTags + 1}
WalkScripts ==
    {[i \in 1 .. NumTags |-> 1], [i \in 1 .. NumTags |-> -1], <<1, -1>>, <<-1, 1>>,
     <<32767>>}

RECURSIVE SumSeq(_)
SumSeq(q) == IF q = <<>> THEN 0 ELSE Head(q) + SumSeq(Tail(q))

IsPrefix(p, q) == Len(p) <= Len(q) /\ \A i \in SeqIndices(p) : p[i] = q[i]

InitWalk ==
    /\ tags = EmptyTags
    /\ active_tag = 0
    /\ ratio = RATIO
    /\ info = DefaultInfo
    /\ input_focus = PointerRoot
    /\ mapped = {}
    /\ frames = {}
    /\ next_id = 0
    /\ queue = <<>>
    /\ hotkeys = <<>>
    /\ config = <<>>
    /\ key = <<>>
    /\ given = [start |-> 0, steps |-> <<>>]
    /\ pc = "run"

WalkMapRequest ==
    /\ pc = "run"
    /\ next_id < MaxAdopt
    /\ Handled(handle_map_request(World, 101))

\* SwitchTag(n): change_active_tag(n - 1) unmaps the old tag's windows and
\* assigns active_tag before map_all indexes tags[n - 1].
WalkSwitchTag(n) ==
    /\ pc = "run"
    /\ IF n - 1 \in Tags
       THEN Commit(handle_keypress(World, SwitchTag(n))) /\ pc' = pc
       ELSE Commit([unmap_all(World) EXCEPT !.active_tag = n - 1]) /\ pc' = "panicked"
    /\ UNCHANGED <<queue, key, given>>

\* MoveWindow(n): move_window(n - 1) unmaps the focused window before it
\* indexes tags[n - 1]; with no focused window it returns before that.
WalkMoveWindow(n) ==
    /\ pc = "run"
    /\ LET i == get_window_state(World, input_focus)
       IN IF n - 1 \in Tags \/ i = 0
          THEN Commit(handle_keypress(World, MoveWindow(n))) /\ pc' = pc
          ELSE /\ Commit(conn_unmap(World, get_active_tag_windows(World)[i]))
               /\ pc' = "panicked"
    /\ UNCHANGED <<queue, key, given>>

\* The walk starts at the active tag.
WalkBegin ==
    /\ pc = "run"
    /\ pc' = "walk"
    /\ given' = [start |-> active_tag, steps |-> <<>>]
    /\ UNCHANGED <<tags, active_tag, ratio, info, input_focus, mapped, frames,
                   next_id, queue, hotkeys, config, key>>

\* NextTag(d) is pressed and handled.
WalkNextTag(d) ==
    /\ pc = "walk"
    /\ \E q \in WalkScripts : IsPrefix(Append(given.steps, d), q)
    /\ given' = [given EXCEPT !.steps = Append(@, d)]
    /\ \/ Commit(handle_keypress(World, NextTag(d))) /\ pc' = pc
       \/ /\ active_tag + d # I16(active_tag + d)
          /\ pc' = "panicked"
          /\ UNCHANGED <<tags, active_tag, ratio, info, input_focus, mapped,
                         frames, next_id, hotkeys, config>>
    /\ UNCHANGED <<queue, key>>

NextWalk ==
    \/ WalkMapRequest
    \/ \E n \in TagArgs : WalkSwitchTag(n)
    \/ \E n \in TagArgs : WalkMoveWindow(n)
    \/ \E d \in {1} : pc = "run" /\ KeyPress(NextTag(d))
    \/ WalkBegin
    \/ \E d \in {-1, 1, 32767} : WalkNextTag(d)

SpecTagWalk == InitWalk /\ [][NextWalk]_vars

\* C11 as stated: after NextTag presses with deltas d1 .. dk from tag t the
\* active tag is (t + d1 + .. + dk) mod 9, non-negative: nine +1 lead back
\* to t, -1 from tag 0 leads to tag 8, +1 then -1 leads back to t.
C11_AsStated ==
    given.steps # <<>> =>
        /\ pc = "walk"
        /\ active_tag = (given.start + SumSeq(given.steps)) % NumTags

\* C12 as stated: the active tag index is one of 0..8 and no tag key
\* addresses an index outside the nine tags.
C12_AsStated == active_tag \in Tags /\ pc # "panicked"

(***************************************************************************)
(* Specification SpecTwin: one refresh from a store drawn around a list    *)
(* of given ids, order and groups: the tiled windows' previous geometry,   *)
(* the focus and the content of another tag vary.  given.list is the same  *)
(* list in a store of its own, with nothing else in it.                    *)
(***************************************************************************)
TwinInfos == {DefaultInfo, [w |-> 640, h |-> 480, bar |-> 15, gap |-> 0]}
TwinRatios == {35, RATIO}
PrevGeos == {<<0, 0, 1, 1>>, <<500, 300, 490, 290>>}

WithGeo(w, g) == [w EXCEPT !.x = g[1], !.y = g[2], !.width = g[3], !.height = g[4]]

\* The stores that hold list in the active tag: a Floating record has the
\* geometry the fullscreen handler gave it, any other a previous geometry.
TwinStores(list) ==
    {[i \in SeqIndices(list) |->
         IF list[i].group = "Floating" THEN list[i] ELSE WithGeo(list[i], g[i])] :
     g \in [SeqIndices(list) -> PrevGeos]}

InitTwin ==
    /\ info \in TwinInfos
    /\ ratio \in TwinRatios
    /\ \E list \in TilerLists(info) :
          /\ Len(list) >= 1
          /\ \E ws \in TwinStores(list) :
                /\ given = [list |-> list, store |-> ws]
                /\ \E f \in {None} \cup {ws[i].window : i \in SeqIndices(ws)},
                      other \in {<<>>, <<WindowState(109, 209)>>} :
                      tags = [EmptyTags EXCEPT
                                 ![0] = [windows |-> ws, focus |-> f],
                                 ![8] = [windows |-> other,
                                         focus |-> IF other = <<>> THEN None ELSE 109]]
    /\ active_tag = 0
    /\ input_focus = PointerRoot
    /\ mapped = {given.list[i].window : i \in SeqIndices(given.list)}
                   \cup {given.list[i].frame_window : i \in SeqIndices(given.list)}
    /\ frames = {given.list[i].frame_window : i \in SeqIndices(given.list)} \cup
                   {tags[8].windows[i].frame_window : i \in SeqIndices(tags[8].windows)}
    /\ next_id = Len(given.list)
    /\ queue = <<>>
    /\ hotkeys = <<>>
    /\ config = <<>>
    /\ key = <<>>
    /\ pc = "given"

SpecTwin == InitTwin /\ [][Refresh]_vars

\* C13: the geometry a refresh leaves in the active tag is the geometry the
\* tiler computes from the list's ids, order and groups and from W, H, B,
\* G, R alone, whatever the previous geometry, the focus and the other
\* tags were.
C13_TilerDeterministic ==
    pc = "tiled" =>
        /\ Len(ActiveWindows) = Len(given.list)
        /\ \A i \in SeqIndices(ActiveWindows) :
              Geo(ActiveWindows[i]) = Geo(man_refresh(given.list, info, ratio)[i])

\* C13 witness: a refreshed store whose windows all had another geometry
\* before than the twin's, with a focus that is not the master and a
\* window in another tag.
C13_Witness ==
    /\ pc = "tiled"
    /\ Len(given.list) >= 2
    /\ \A i \in SeqIndices(given.list) :
          given.list[i].group # "Floating" => Geo(given.store[i]) # Geo(given.list[i])
    /\ tags[0].focus = given.list[1].window
    /\ tags[8].windows # <<>>

(***************************************************************************)
(* Specification SpecEvents: the event handlers.  The run is observed at  *)
(* its last step: that step records in key the event it handled, the       *)
(* ConfigureWindow requests it sent and the state it started from.         *)
(***************************************************************************)
Before ==
    [tags |-> tags, active_tag |-> active_tag, ratio |-> ratio, frames |-> frames,
     input_focus |-> input_focus, mapped |-> mapped]

Handling(type, window, arg, sent) ==
    /\ pc = "run"
    /\ \/ key' = key /\ pc' = pc
       \/ /\ key' = <<[type |-> type, window |-> window, arg |-> arg, sent |-> sent,
                       before |-> Before]>>
          /\ pc' = "seen"
    /\ UNCHANGED <<queue, given>>

EvMapRequest(window) ==
    /\ get_window_state(World, window) # 0 \/ next_id < MaxAdopt
    /\ Commit(handle_map_request(World, window))
    /\ Handling("MapRequest", window, 0, <<>>)

EvUnmapNotify(window) ==
    /\ Commit(handle_unmap_notify([World EXCEPT !.mapped = @ \ {window}], window))
    /\ Handling("UnmapNotify", window, 0, <<>>)

EvEnterNotify(child, event) ==
    /\ Commit(handle_enter(World, child, event))
    /\ Handling("EnterNotify", event, child, <<>>)

\* The ConfigureRequest events of a client: a move and resize, a resize
\* with a restack above a sibling.
ValueMasks ==
    {{"x", "y", "width", "height"}, {"width", "height", "sibling", "stack_mode"}}

ConfigureRequestEvent(window, mask) ==
    [window |-> window, value_mask |-> mask, x |-> 5, y |-> 6, width |-> 300,
     height |-> 200, sibling |-> Foreign, stack_mode |-> "Above"]

EvConfigureRequest(event) ==
    /\ Commit(handle_config(World, event.window))
    /\ Handling("ConfigureRequest", event.window, event.value_mask,
                handle_config_requests(World, event))

EvClientMessage(window, data0) ==
    /\ Commit(handle_client_message(World, window, data0))
    /\ Handling("ClientMessage", window, data0, <<>>)

EvKeyPress(action) ==
    /\ Commit(handle_keypress(World, action))
    /\ Handling("KeyPress", None, action, handle_keypress_messages(World, action))

EvKeyActions ==
    {SwitchTag(1), SwitchTag(NumTags), MoveWindow(NumTags), ExitFocusedWindow,
     SwapMaster, NextFocus(-1), NextFocus(1)}

\* A mapped client sets the input focus on its own window (SetInputFocus is
\* open to every client of the server).
ClientTakesFocus(window) ==
    /\ pc = "run"
    /\ window \in mapped
    /\ input_focus' = window
    /\ UNCHANGED <<tags, active_tag, ratio, info, mapped, frames, next_id, queue,
                   hotkeys, config, key, given, pc>>

\* The windows of the events of SpecEvents: the clients, the first frame and
\* a window of another client.
EvWindows == Clients \cup {FrameOf(1), Foreign}
EvEnterPairs == {<<None, e>> : e \in EvWindows} \cup {<<101, Foreign>>}

NextEvents ==
    \/ \E w \in Clients : EvMapRequest(w)
    \/ \E w \in EvWindows : EvUnmapNotify(w)
    \/ \E p \in EvEnterPairs : EvEnterNotify(p[1], p[2])
    \/ \E w \in {101, Foreign}, m \in ValueMasks :
          EvConfigureRequest(ConfigureRequestEvent(w, m))
    \/ \E w \in Clients, d \in 0 .. 2 : EvClientMessage(w, d)
    \/ \E a \in EvKeyActions : EvKeyPress(a)
    \/ \E w \in Clients : ClientTakesFocus(w)

SpecEvents == Init /\ [][NextEvents]_vars

\* The last step handled an event of this type; ev is the event, ev.before
\* the state the handler started from.
Seen(type) == pc = "seen" /\ key[1].type = type
ev == key[1]
WindowsBefore == ev.before.tags[ev.before.active_tag].windows

\* The frame ids of all records of a store.
FrameIds(tt) ==
    UNION {{tt[t].windows[i].frame_window : i \in SeqIndices(tt[t].windows)} : t \in Tags}

\* The tags where a store holds a record of client c.
TagsOf(tt, c) ==
    {t \in Tags : \E i \in SeqIndices(tt[t].windows) : tt[t].windows[i].window = c}

\* The tags, other than the active one, that the step changed.
OtherTagsChanged == {t \in Tags \ {active_tag} : tags[t] # ev.before.tags[t]}

StoreUnchanged ==
    /\ tags = ev.before.tags
    /\ active_tag = ev.before.active_tag
    /\ ratio = ev.before.ratio

\* C14: a MapRequest for a client that has no record appends exactly one
\* record, with a fresh frame id, at the end of the active tag's list and
\* makes the client the tag's focus; after the refresh the new window is
\* Master and the previous master is Stack; no other tag changes.
C14_MapRequestAppends ==
    (Seen("MapRequest") /\ TagsOf(ev.before.tags, ev.window) = {}) =>
        LET old == WindowsBefore
            new == ActiveWindows
        IN /\ active_tag = ev.before.active_tag
           /\ Len(new) = Len(old) + 1
           /\ \A i \in SeqIndices(old) :
                 /\ new[i].window = old[i].window
                 /\ new[i].frame_window = old[i].frame_window
           /\ Last(new).window = ev.window
           /\ Last(new).frame_window \notin
                 ev.before.frames \cup FrameIds(ev.before.tags) \cup Clients
           /\ Last(new).frame_window \in frames
           /\ tags[active_tag].focus = ev.window
           /\ Last(new).group = "Master"
           /\ old # <<>> => /\ Last(old).group = "Master"
                            /\ new[Len(old)].group = "Stack"
           /\ OtherTagsChanged = {}

\* C14 witness: 102 was adopted behind the focused master 101, which is now
\* the stack window.
C14_Witness ==
    /\ Seen("MapRequest")
    /\ ev.window = 102
    /\ Ids(WindowsBefore) = <<101>>
    /\ Ids(ActiveWindows) = <<101, 102>>
    /\ GroupsOf(ActiveWindows) = <<"Stack", "Master">>
    /\ tags[active_tag].focus = 102
    /\ ev.before.tags[active_tag].focus = 101

\* C15 as stated: a MapRequest for a client that has a record, in the
\* active tag or in any other tag, changes nothing.
C15_AsStated ==
    (Seen("MapRequest") /\ TagsOf(ev.before.tags, ev.window) # {}) =>
        /\ StoreUnchanged
        /\ frames = ev.before.frames
        /\ input_focus = ev.before.input_focus

\* The focus of the active tag is its last window, or None without one.
FocusIsMaster == tags[active_tag].focus = (IF ActiveWindows = <<>> THEN None
                                           ELSE Last(ActiveWindows).window)

\* The index in the list before of the record the event's window matched.
Known == get_window_state(ev.before, ev.window)

\* C16 as stated: after an UnmapNotify for a window known in the active tag
\* (by its client id or its frame id) the window's record is not in the
\* active list, its frame is destroyed, and the tag's focus is the last
\* remaining window or None; UnmapNotify(102) on [101, 102] leaves [101]
\* with focus 101 at (10, 30, 980, 560).
C16_AsStated ==
    (Seen("UnmapNotify") /\ Known # 0) =>
        /\ \A i \in SeqIndices(ActiveWindows) :
              ActiveWindows[i].window # WindowsBefore[Known].window
        /\ WindowsBefore[Known].frame_window \notin frames
        /\ FocusIsMaster
        /\ (Ids(WindowsBefore) = <<101, 102>> /\ ev.window = 102) =>
              /\ Ids(ActiveWindows) = <<101>>
              /\ tags[active_tag].focus = 101
              /\ Geo(ActiveWindows[1]) = <<10, 30, 980, 560>>

\* id is neither the client id nor the frame id of a record of any tag.
NoMatch(tt, id) ==
    \A t \in Tags : \A i \in SeqIndices(tt[t].windows) : ~Matches(tt[t].windows[i], id)

\* C17: an UnmapNotify, an EnterNotify or a fullscreen ClientMessage whose
\* window matches no record's client id or frame id leaves every tag's
\* list and focus, the active tag and the ratio unchanged, and destroys or
\* reparents no frame.
C17_UnknownWindowIgnored ==
    (/\ Seen("UnmapNotify") \/ Seen("EnterNotify") \/ Seen("ClientMessage")
     /\ NoMatch(ev.before.tags, ev.window)
     /\ Seen("EnterNotify") => NoMatch(ev.before.tags, ev.arg)) =>
        /\ StoreUnchanged
        /\ frames = ev.before.frames

\* C17 witness: an EnterNotify for a window of no record was handled while
\* the store held a focused window in the active tag and one in another.
C17_Witness ==
    /\ Seen("EnterNotify")
    /\ ev.window = Foreign
    /\ ev.arg = None
    /\ ActiveWindows # <<>>
    /\ tags[active_tag].focus # None
    /\ \E t \in Tags \ {active_tag} : tags[t].windows # <<>>

Geometry == {"x", "y", "width", "height"}

\* C18 as stated: every ConfigureRequest is forwarded as one ConfigureWindow
\* request for the same window with the client's x, y, width and height;
\* for a known client it carries neither sibling nor stack_mode, for an
\* unknown window it is the request unchanged; the store is not modified.
C18_AsStated ==
    Seen("ConfigureRequest") =>
        /\ StoreUnchanged
        /\ Len(ev.sent) = 1
        /\ ev.sent[1].window = ev.window
        /\ ev.sent[1].aux.mask \cap Geometry = ev.arg \cap Geometry
        /\ <<ev.sent[1].aux.x, ev.sent[1].aux.y, ev.sent[1].aux.width,
             ev.sent[1].aux.height>> = <<5, 6, 300, 200>>
        /\ IF Known # 0
           THEN ev.sent[1].aux.mask \cap {"sibling", "stack_mode"} = {}
           ELSE ev.sent[1].aux.mask = ev.arg

\* The index, in the list before, of the record an EnterNotify matched:
\* the record of the event window, else the record of the child.
Entered ==
    IF Known # 0 THEN Known ELSE get_window_state(ev.before, ev.arg)

\* C19: an EnterNotify whose window is the client id or the frame id of a
\* record of the active tag makes that record's client id the tag's focus,
\* leaves every tag's list and every other tag's focus unchanged, and is
\* followed by a refresh (the input focus is on that client, the list is
\* the tiled one).
C19_EnterFocusesClient ==
    (Seen("EnterNotify") /\ Entered # 0) =>
        /\ tags[active_tag].focus = WindowsBefore[Entered].window
        /\ tags[active_tag].focus \in Clients
        /\ active_tag = ev.before.active_tag
        /\ \A t \in Tags : tags[t].windows = ev.before.tags[t].windows
        /\ OtherTagsChanged = {}
        /\ input_focus = WindowsBefore[Entered].window
        /\ ActiveWindows = man_refresh(ActiveWindows, info, ratio)

\* C19 witness: the pointer entered frame 201 while 102 had the focus, and
\* the focus is client 101.
C19_Witness ==
    /\ Seen("EnterNotify")
    /\ ev.window = FrameOf(1)
    /\ Ids(WindowsBefore) = <<101, 102>>
    /\ WindowsBefore[1].frame_window = FrameOf(1)
    /\ ev.before.tags[active_tag].focus = 102
    /\ ev.before.input_focus = 102
    /\ tags[active_tag].focus = 101

\* C20 as stated: after a fullscreen message with data[0] = 1 for a known
\* client, refresh included, the window is Floating at (0, 0, W, H); after
\* one with data[0] = 0 it is tiled again, a single window at
\* (10, 30, 980, 560).
C20_AsStated ==
    (Seen("ClientMessage") /\ Known # 0) =>
        /\ ev.arg = 1 =>
              /\ ActiveWindows[Known].group = "Floating"
              /\ Geo(ActiveWindows[Known]) = <<0, 0, info.w, info.h>>
        /\ ev.arg = 0 =>
              /\ ActiveWindows[Known].group # "Floating"
              /\ Len(ActiveWindows) = 1 => Geo(ActiveWindows[1]) = <<10, 30, 980, 560>>

\* C21 as stated: a fullscreen message with data[0] = 2 for a known client
\* toggles: a window that is not Floating becomes Floating, a Floating
\* window is tiled again.
C21_AsStated ==
    (Seen("ClientMessage") /\ Known # 0 /\ ev.arg = 2) =>
        (ActiveWindows[Known].group = "Floating") #
            (WindowsBefore[Known].group = "Floating")

\* The last step handled a key press that resolved to an action of this type.
SeenKey(type) == Seen("KeyPress") /\ ev.arg.type = type
FocusBefore == ev.before.tags[ev.before.active_tag].focus

\* C25: ExitFocusedWindow without a focus sends no message and leaves the
\* store unchanged; with a focus it sends one WM_DELETE_WINDOW message to
\* the focused client and removes no record.
C25_ExitOnlySendsDelete ==
    SeenKey("ExitFocusedWindow") =>
        /\ StoreUnchanged
        /\ frames = ev.before.frames
        /\ ev.sent = IF FocusBefore = None THEN <<>>
                     ELSE <<[type |-> "WM_DELETE_WINDOW", window |-> FocusBefore]>>
        /\ FocusBefore # None => FocusBefore \in Clients

\* C25 witness: ExitFocusedWindow was pressed with 102 focused in [101, 102]
\* and both records are still there.
C25_Witness ==
    /\ SeenKey("ExitFocusedWindow")
    /\ FocusBefore = 102
    /\ ev.sent # <<>>
    /\ Ids(ActiveWindows) = <<101, 102>>

\* The client and frame ids of a list.
AllIds(ws) ==
    {ws[i].window : i \in SeqIndices(ws)} \cup {ws[i].frame_window : i \in SeqIndices(ws)}

\* C26: a switch to another tag t unmaps every window of the old tag, sets
\* active_tag to t and maps every window of tag t; the lists of the tags
\* left behind are kept as they are, geometry included, and a list that was
\* tiled when its tag was left has the same geometry when the tag is
\* entered again.  A switch to the active tag maps and unmaps nothing and
\* leaves the store unchanged.
C26_SwitchTagMapsAndUnmaps ==
    SeenKey("SwitchTag") =>
        LET t == ev.arg.arg - 1
            old == ev.before.tags[ev.before.active_tag].windows
            new == ev.before.tags[t].windows
        IN IF t = ev.before.active_tag
           THEN StoreUnchanged /\ mapped = ev.before.mapped
           ELSE /\ active_tag = t
                /\ mapped = (ev.before.mapped \ AllIds(old)) \cup AllIds(new)
                /\ AllIds(new) \subseteq mapped
                /\ \A u \in Tags \ {t} : tags[u] = ev.before.tags[u]
                /\ tags[t].windows = man_refresh(new, info, ratio)
                /\ new = man_refresh(new, info, ratio) => tags[t].windows = new

\* C26 witness: tag 0 with the tiled [101, 102] was entered again from tag
\* 8 and its windows are mapped at the geometry they had.
C26_Witness ==
    /\ SeenKey("SwitchTag")
    /\ ev.before.active_tag = 8
    /\ active_tag = 0
    /\ Ids(ActiveWindows) = <<101, 102>>
    /\ ActiveWindows = ev.before.tags[0].windows
    /\ Geo(ActiveWindows[2]) = <<10, 30, 480, 560>>
    /\ AllIds(ActiveWindows) \subseteq mapped
    /\ AllIds(ActiveWindows) \cap ev.before.mapped = {}

\* The identity of the records of a list: client id and frame id, in order.
Records(ws) == [i \in SeqIndices(ws) |-> <<ws[i].window, ws[i].frame_window>>]

\* C27 as stated: MoveWindow to another tag t moves the record of the
\* client that is the active tag's focus in the store to the end of tag
\* t's list, unmaps it and makes the source tag's last window (or None) its
\* focus; nothing else changes.  With t the active tag, or without a
\* focus, nothing changes.
C27_AsStated ==
    SeenKey("MoveWindow") =>
        LET t == ev.arg.arg - 1
            a == ev.before.active_tag
            p == PosOf(WindowsBefore, FocusBefore)
        IN IF t = a \/ FocusBefore = None
           THEN StoreUnchanged
           ELSE /\ p # 0
                /\ active_tag = a
                /\ Records(tags[a].windows) = Records(Retain(WindowsBefore, FocusBefore))
                /\ tags[t].windows = Append(ev.before.tags[t].windows, WindowsBefore[p])
                /\ AllIds(<<WindowsBefore[p]>>) \cap mapped = {}
                /\ FocusIsMaster
                /\ \A u \in Tags \ {a, t} : tags[u] = ev.before.tags[u]

\* C28: swap_master exchanges the positions of the focused window and the
\* master (the last element), and the last two elements when the focused
\* window is the master of a list of more than one window; the list is a
\* permutation of the list before, the focus id and the other tags are
\* unchanged.
C28_SwapMasterPermutes ==
    SeenKey("SwapMaster") =>
        LET old == Records(WindowsBefore)
            new == Records(ActiveWindows)
            n == Len(old)
            p == PosOf(WindowsBefore, FocusBefore)
            q == IF p = n THEN n - 1 ELSE p
        IN /\ Len(new) = n
           /\ {new[i] : i \in 1 .. n} = {old[i] : i \in 1 .. n}
           /\ IF p = 0 \/ q = 0 THEN new = old
              ELSE /\ new[q] = old[n]
                   /\ new[n] = old[q]
                   /\ \A i \in (1 .. n) \ {q, n} : new[i] = old[i]
           /\ tags[active_tag].focus = FocusBefore
           /\ active_tag = ev.before.active_tag
           /\ OtherTagsChanged = {}

\* C28 witness: SwapMaster was pressed with the stack window 101 focused in
\* [101, 102]; the list is [102, 101] and 101 still has the focus.
C28_Witness ==
    /\ SeenKey("SwapMaster")
    /\ Ids(WindowsBefore) = <<101, 102>>
    /\ FocusBefore = 101
    /\ Ids(ActiveWindows) = <<102, 101>>
    /\ tags[active_tag].focus = 101

RECURSIVE NextFocusTimes(_, _)
\* k applications of switch_focus_next(+1).
NextFocusTimes(s, k) ==
    IF k = 0 THEN s ELSE NextFocusTimes(switch_focus_next(s, 1), k - 1)

(***************************************************************************)
(* SpecFocus: adoptions, moves to the last tag, switches to it and focus   *)
(* keys, with room for a third adoption: a client adopted in tag 0, moved  *)
(* to the last tag and adopted again in tag 0 has two records, and the     *)
(* second move puts both in one list.                                      *)
(***************************************************************************)
MaxFocusAdopt == 3

FocusMapRequest(window) ==
    /\ get_window_state(World, window) # 0 \/ next_id < MaxFocusAdopt
    /\ Commit(handle_map_request(World, window))
    /\ Handling("MapRequest", window, 0, <<>>)

FocusKeyActions == {SwitchTag(NumTags), MoveWindow(NumTags), NextFocus(-1), NextFocus(1)}

NextFocusWalk ==
    \/ \E w \in Clients : FocusMapRequest(w)
    \/ \E a \in FocusKeyActions : EvKeyPress(a)

SpecFocus == Init /\ [][NextFocusWalk]_vars

\* C29 as stated: NextFocus(delta) makes the window at index (pos(focus) +
\* delta) mod n, never negative, the focus of the active tag and does
\* nothing on an empty tag; the new focus is a window of the list and no
\* list changes.  From every state, NextFocus(+1) then NextFocus(-1) gives
\* back the focus, and so do n applications of NextFocus(+1).
C29_AsStated ==
    /\ SeenKey("NextFocus") =>
          LET n == Len(WindowsBefore)
              p == PosOf(WindowsBefore, FocusBefore)
          IN /\ \A t \in Tags : Records(tags[t].windows) = Records(ev.before.tags[t].windows)
             /\ OtherTagsChanged = {}
             /\ n = 0 => StoreUnchanged
             /\ p # 0 =>
                   /\ tags[active_tag].focus =
                         WindowsBefore[(((p - 1) + ev.arg.arg) % n) + 1].window
                   /\ PosOf(ActiveWindows, tags[active_tag].focus) # 0
    /\ get_focus(switch_focus_next(switch_focus_next(World, 1), -1)) = get_focus(World)
    /\ get_focus(switch_focus_next(switch_focus_next(World, -1), 1)) = get_focus(World)
    /\ get_focus(NextFocusTimes(World, Len(ActiveWindows))) = get_focus(World)

\* C30 as stated: every record of every tag has a frame id no other record
\* has, and that frame exists on the server.
C30_AsStated ==
    \A t \in Tags : \A i \in SeqIndices(tags[t].windows) :
        /\ tags[t].windows[i].frame_window \in frames
        /\ \A u \in Tags : \A j \in SeqIndices(tags[u].windows) :
              tags[u].windows[j].frame_window = tags[t].windows[i].frame_window
                  => (u = t /\ j = i)

(***************************************************************************)
(* SpecLoop: the event loop of main, which hands each event to the handler *)
(* and returns the handler's error with `?`.  pc = "exited" once main has  *)
(* returned; key holds the error that ended it.                            *)
(***************************************************************************)
Exit(type, window, error) ==
    /\ key' = <<[type |-> type, window |-> window, arg |-> error, sent |-> <<>>,
                 before |-> Before]>>
    /\ pc' = "exited"
    /\ UNCHANGED <<queue, given>>

\* An event whose handler returns Ok: the loop goes on.
LoopHandled ==
    /\ pc = "run"
    /\ \/ \E w \in Clients : MapRequest(w)
       \/ \E w \in Clients : UnmapNotify(w)
       \/ \E w \in Clients : EnterNotify(None, w)
       \/ \E a \in {SwitchTag(1), SwitchTag(NumTags)} : KeyPress(a)

\* A MapRequest whose client goes away during the adoption: the handler
\* returns the protocol error of the checked request, main returns it.
LoopMapRequestGone(window, when) ==
    /\ pc = "run"
    /\ get_window_state(World, window) = 0
    /\ next_id < MaxAdopt
    /\ Commit(handle_map_request_gone(World, window, when))
    /\ Exit("MapRequest", window, "protocol")

\* The connection to the server breaks: wait_for_event returns the error.
ConnectionLost ==
    /\ pc = "run"
    /\ UNCHANGED <<tags, active_tag, ratio, info, input_focus, mapped, frames,
                   next_id, hotkeys, config>>
    /\ Exit("wait_for_event", None, "connection")

NextLoop ==
    \/ LoopHandled
    \/ \E w \in Clients, when \in {"props", "reparent"} : LoopMapRequestGone(w, when)
    \/ ConnectionLost

SpecLoop == Init /\ [][NextLoop]_vars

\* C22 as stated: the event loop ends only on a fatal error, the loss of the
\* connection; an error of a handler that is not fatal is logged and
\* discarded and the loop goes on.
C22_AsStated == pc = "exited" => key[1].arg = "connection"

(***************************************************************************)
(* SpecFaults: the handlers with clients that go away during their         *)
(* adoption, for a caller that goes on after a handler's error.  given     *)
(* lists <<client, frame>> for every adoption that was aborted.            *)
(***************************************************************************)
GoneClients == {given[i][1] : i \in SeqIndices(given)}

FaultMapRequest(window) ==
    /\ window \notin GoneClients
    /\ EvMapRequest(window)

\* The adoption fails.  An aborted adoption ("props") is followed by more
\* events; the run is observed at an adoption that added the record of the
\* client that is gone ("reparent").
FaultMapRequestGone(window, when) ==
    /\ pc = "run"
    /\ window \notin GoneClients
    /\ get_window_state(World, window) = 0
    /\ next_id < MaxAdopt
    /\ Commit(handle_map_request_gone(World, window, when))
    /\ given' = IF when = "props"
                THEN Append(given, <<window, FrameOf(next_id + 1)>>) ELSE given
    /\ \/ when = "props" /\ key' = key /\ pc' = pc
       \/ /\ key' = <<[type |-> "MapRequestGone", window |-> window, arg |-> when,
                       sent |-> <<>>, before |-> Before]>>
          /\ pc' = "seen"
    /\ UNCHANGED queue

NextFaults ==
    \/ \E w \in Clients : FaultMapRequest(w)
    \/ \E w \in Clients, when \in {"props", "reparent"} : FaultMapRequestGone(w, when)
    \/ \E w \in Clients : EvUnmapNotify(w)
    \/ \E w \in Clients \ GoneClients : EvEnterNotify(None, w)
    \/ \E a \in {SwitchTag(1), SwitchTag(NumTags)} : EvKeyPress(a)

SpecFaults == Init /\ [][NextFaults]_vars

\* C23 as stated: a MapRequest whose client is gone during the adoption adds
\* no record and leaves the focus as it was, and once the UnmapNotify of
\* that client is handled the frame created for it is destroyed.
C23_AsStated ==
    /\ Seen("MapRequestGone") => StoreUnchanged
    /\ Seen("UnmapNotify") =>
          \A i \in SeqIndices(given) : given[i][1] = ev.window => given[i][2] \notin frames

\* The display agrees with the store: the frames on the server are the
\* frames of the records, every record's frame exists, and the mapped
\* windows are the clients and frames of the active tag.
Agree ==
    /\ frames = FrameIds(tags)
    /\ mapped = AllIds(ActiveWindows)

\* C24 as stated: after a side effect of a handler failed, the store's
\* focus is valid, every record has a live frame, and once a later handler's
\* refresh succeeded the display agrees with the store.
C24_AsStated ==
    (Seen("EnterNotify") \/ Seen("KeyPress")) =>
        /\ tags[active_tag].focus # None => PosOf(ActiveWindows, tags[active_tag].focus) # 0
        /\ Agree

(***************************************************************************)
(* Properties of SpecKeys: entries without a keycode.                      *)
(***************************************************************************)
HasCode(entry) == sym_to_code(parse_key(entry.key)) # None

\* C31 as stated: once the hotkey table is built the window manager runs,
\* and the table holds, in order, the configured entries whose keysym has a
\* keycode; the entries without one are dropped.
C31_AsStated ==
    pc # "config" =>
        /\ pc = "run"
        /\ hotkeys = get_hotkeys(SelectSeq(config.hotkeys, HasCode))

(***************************************************************************)
(* SpecResolve: KeyHandler::new on a server with keycodes lo .. hi whose   *)
(* mapping binds the keysym q to one keycode, then sym_to_code(q).         *)
(* given = the server's setup and the keycode of q; key = the result.      *)
(***************************************************************************)
\* KeyHandler::new: the mapping of all keycodes, min_code, and in max_code
\* the number of keycodes (u8).
KeyHandler(lo, hi, keysyms) ==
    [mapping |-> keysyms, min_code |-> lo, max_code |-> (hi - lo + 1) % 256]

\* code_to_sym: column 0 of the keycode's line of the mapping.
handler_code_to_sym(h, code) ==
    IF code \in DOMAIN h.mapping THEN h.mapping[code] ELSE "NoSymbol"

\* sym_to_code: the first keycode of min_code ..= max_code with the keysym.
handler_sym_to_code(h, sym) ==
    LET hits == {c \in h.min_code .. h.max_code : handler_code_to_sym(h, c) = sym}
    IN IF hits = {} THEN None ELSE CHOOSE c \in hits : \A d \in hits : c <= d

\* min_keycode and max_keycode of the server's setup (8 <= min <= max <= 255).
MinKeycodes == {8, 100, 200}
MaxKeycodes == {200, 248, 255}

Setups ==
    {[min_keycode |-> lo, max_keycode |-> hi, code |-> c] :
        lo \in MinKeycodes, hi \in MaxKeycodes, c \in 8 .. 255}

InitResolve ==
    /\ given \in {g \in Setups : g.code \in g.min_keycode .. g.max_keycode}
    /\ tags = EmptyTags
    /\ active_tag = 0
    /\ ratio = RATIO
    /\ info = DefaultInfo
    /\ input_focus = PointerRoot
    /\ mapped = {}
    /\ frames = {}
    /\ next_id = 0
    /\ queue = <<>>
    /\ hotkeys = <<>>
    /\ config = <<>>
    /\ key = <<>>
    /\ pc = "run"

\* The keyboard mapping of the setup: q on one keycode, nothing elsewhere.
MappingOf(g) ==
    [k \in g.min_keycode .. g.max_keycode |-> IF k = g.code THEN "q" ELSE "NoSymbol"]

Resolve ==
    /\ pc = "run"
    /\ key' = <<handler_sym_to_code(
                    KeyHandler(given.min_keycode, given.max_keycode, MappingOf(given)), "q")>>
    /\ pc' = "done"
    /\ UNCHANGED <<tags, active_tag, ratio, info, input_focus, mapped, frames,
                   next_id, queue, hotkeys, config, given>>

SpecResolve == InitResolve /\ [][Resolve]_vars

\* C36 as stated: for a keysym the mapping binds to a keycode between
\* min_keycode and max_keycode, sym_to_code returns a keycode bound to it.
C36_AsStated == pc = "done" => key[1] # None /\ MappingOf(given)[key[1]] = "q"

(***************************************************************************)
(* SpecRefresh: the steps of one refresh, in the order the code runs them. *)
(* The last step of a run is a Spawn or SwapMaster key press; key holds    *)
(* the steps of its refresh.                                               *)
(***************************************************************************)
Step(op, window, arg) == [op |-> op, window |-> window, arg |-> arg]

\* set_focus_window: input focus, then border width and normal colour of
\* every window whose group is not Floating, then the focus colour.
set_focus_window_steps(ws, w) ==
    <<Step("set_input_focus", w.window, 0)>>
    \o [i \in SeqIndices(SelectSeq(ws, LAMBDA x : x.group # "Floating")) |->
           Step("border", SelectSeq(ws, LAMBDA x : x.group # "Floating")[i].frame_window, 0)]
    \o <<Step("border_focus", w.frame_window, 0)>>

refresh_focus_steps(s) ==
    LET f == get_focus(s)
        i == get_window_state(s, f)
    IN IF f # None
       THEN (IF i = 0 THEN <<>>
             ELSE set_focus_window_steps(get_active_tag_windows(s), get_active_tag_windows(s)[i]))
       ELSE <<Step("set_input_focus", PointerRoot, 0)>>

\* config_all: the geometry of every window of the active list.
config_all_steps(ws) ==
    [i \in SeqIndices(ws) |-> Step("configure", ws[i].frame_window, Geo(ws[i]))]

\* refresh: refresh_focus, StateHandler::refresh, config_all, the bar.
refresh_steps(s) ==
    LET s1 == refresh(s)
    IN refresh_focus_steps(s)
       \o <<Step("classify", None, GroupsOf(get_active_tag_windows(s1))),
            Step("tile", None, 0)>>
       \o config_all_steps(get_active_tag_windows(s1))
       \o <<Step("draw_bar", None, 0)>>

\* An event the run goes on after.
RefreshHandled ==
    /\ pc = "run"
    /\ \/ \E w \in Clients : MapRequest(w)
       \/ \E w \in Clients : EnterNotify(None, w)
       \/ \E w \in Clients, d \in 0 .. 1 : ClientMessage(w, d)
       \/ \E w \in Clients : UnmapNotify(w)
       \/ \E a \in {SwitchTag(1), SwitchTag(NumTags)} : KeyPress(a)

\* The key press the run is observed at; Spawn hands the store as it is to
\* refresh, SwapMaster the store swap_master leaves.
RefreshObserved(action) ==
    /\ pc = "run"
    /\ Commit(handle_keypress(World, action))
    /\ key' = <<[type |-> "KeyPress", window |-> None, arg |-> action,
                 sent |-> refresh_steps(IF action = SwapMaster THEN swap_master(World)
                                        ELSE World),
                 before |-> Before]>>
    /\ pc' = "seen"
    /\ UNCHANGED <<queue, given>>

NextRefresh ==
    \/ RefreshHandled
    \/ \E a \in {Spawn, SwapMaster} : RefreshObserved(a)

SpecRefresh == Init /\ [][NextRefresh]_vars

StepsAt(ops) == {i \in SeqIndices(ev.sent) : ev.sent[i].op \in ops}
Before_(a, b) == \A i \in StepsAt(a), j \in StepsAt(b) : i < j

\* C33 as stated: in one refresh the classification comes first, then the
\* tiler, then the geometry of every window of the active tag, then the
\* focus (input focus and borders), then the bar; and the borders are set on
\* the windows that the classification of this refresh leaves non-Floating.
C33_AsStated ==
    Seen("KeyPress") =>
        /\ Before_({"classify"}, {"tile"})
        /\ Before_({"tile"}, {"configure"})
        /\ Before_({"configure"}, {"set_input_focus", "border", "border_focus"})
        /\ Before_({"set_input_focus", "border", "border_focus"}, {"draw_bar"})
        /\ StepsAt({"classify"}) # {} /\ StepsAt({"draw_bar"}) # {}
        /\ tags[active_tag].focus # None /\ PosOf(ActiveWindows, tags[active_tag].focus) # 0 =>
              {ev.sent[i].window : i \in StepsAt({"border"})}
                  = {ActiveWindows[i].frame_window :
                        i \in {j \in SeqIndices(ActiveWindows) :
                                  ActiveWindows[j].group # "Floating"}}

(***************************************************************************)
(* SpecAdopt: the requests of create_frame_of_window, one after the other, *)
(* each of which can return an error that `?` returns to the caller.  The  *)
(* last step of a run is an adoption; key holds the requests it issued and *)
(* the number of the request that failed (10: none).                       *)
(***************************************************************************)
\* The requests of create_frame_of_window in the order of the code.
create_frame_of_window_requests(w) ==
    <<Step("create_window", w.frame_window, 0),
      Step("change_window_attributes", w.window, 0),
      Step("change_property", w.window, 0),
      Step("grab_server", None, 0),
      Step("change_save_set", w.window, 0),
      Step("reparent_window", w.window, w.frame_window),
      Step("map_window", w.frame_window, 0),
      Step("map_window", w.window, 0),
      Step("ungrab_server", None, 0)>>

NoFailure == 10

\* The requests issued when request number k returns its error: the ones
\* before it, and the checked property request itself (its error is the
\* server's answer).
issued_requests(w, k) ==
    SubSeq(create_frame_of_window_requests(w), 1, IF k = 3 THEN 3 ELSE k - 1)

\* What the issued requests do to the server.
apply_requests(s, reqs) ==
    [s EXCEPT
       !.frames = @ \cup {reqs[i].window :
                            i \in {j \in SeqIndices(reqs) : reqs[j].op = "create_window"}},
       !.mapped = @ \cup {reqs[i].window :
                            i \in {j \in SeqIndices(reqs) : reqs[j].op = "map_window"}}]

\* handle_map_request when request k of the adoption fails: the error leaves
\* the handler before add_window.
handle_map_request_failing(s, window, k) ==
    IF k = NoFailure THEN handle_map_request(s, window)
    ELSE LET w == WindowState(window, FrameOf(s.next_id + 1))
         IN apply_requests([s EXCEPT !.next_id = @ + 1], issued_requests(w, k))

AdoptHandled ==
    /\ pc = "run"
    /\ \/ \E w \in Clients : MapRequest(w)
       \/ \E w \in Clients : UnmapNotify(w)
       \/ \E a \in {SwitchTag(1), SwitchTag(NumTags)} : KeyPress(a)

AdoptObserved(window, k) ==
    /\ pc = "run"
    /\ get_window_state(World, window) = 0
    /\ next_id < MaxAdopt
    /\ Commit(handle_map_request_failing(World, window, k))
    /\ key' = <<[type |-> "MapRequest", window |-> window, arg |-> k,
                 sent |-> issued_requests(WindowState(window, FrameOf(next_id + 1)), k),
                 before |-> Before]>>
    /\ pc' = "seen"
    /\ UNCHANGED <<queue, given>>

NextAdopt ==
    \/ AdoptHandled
    \/ \E w \in Clients, k \in 1 .. NoFailure : AdoptObserved(w, k)

SpecAdopt == Init /\ [][NextAdopt]_vars

\* The server is grabbed after the requests: a grab with no ungrab after it.
Grabbed(reqs) ==
    \E i \in SeqIndices(reqs) :
        /\ reqs[i].op = "grab_server"
        /\ \A j \in SeqIndices(reqs) : j > i => reqs[j].op # "ungrab_server"

\* The requests the claim names, in its order.
AdoptionOrder ==
    <<"create_window", "change_window_attributes", "grab_server", "change_save_set",
      "reparent_window", "map_window", "map_window", "ungrab_server">>

OpsOf(reqs) == [i \in SeqIndices(reqs) |-> reqs[i].op]

\* C34 as stated: the requests of an adoption are issued in the order create
\* frame, event mask, grab, save-set insert, reparent, map frame, map client,
\* ungrab; save-set insert, reparent and maps are issued while the server is
\* grabbed; and on every path out of the adoption, failed steps included,
\* the server is not left grabbed.
C34_AsStated ==
    Seen("MapRequest") =>
        /\ IsPrefix(SelectSeq(OpsOf(ev.sent), LAMBDA o : o # "change_property"), AdoptionOrder)
        /\ \A i \in SeqIndices(ev.sent) :
              ev.sent[i].op \in {"change_save_set", "reparent_window", "map_window"}
                  => Grabbed(SubSeq(ev.sent, 1, i))
        /\ ev.arg = NoFailure => ev.sent = create_frame_of_window_requests(Last(ActiveWindows))
        /\ ~Grabbed(ev.sent)

(***************************************************************************)
(* Properties of SpecEvents: the order of the lists.                       *)
(***************************************************************************)
RangeOf(q) == {q[i] : i \in SeqIndices(q)}
FirstAt(q, r) == CHOOSE i \in SeqIndices(q) : q[i] = r /\ \A j \in SeqIndices(q) : q[j] = r => i <= j

\* The records of old that are still in new are in the same relative order,
\* and every record of new that old does not have comes after them.
OrderKept(old, new) ==
    \A i, j \in SeqIndices(new) :
        /\ i < j /\ new[i] \in RangeOf(old) /\ new[j] \in RangeOf(old)
              => FirstAt(old, new[i]) < FirstAt(old, new[j])
        /\ new[i] \notin RangeOf(old) /\ new[j] \in RangeOf(old) => j < i

AllOrderKept(old, new) ==
    \A t \in Tags : OrderKept(Records(old[t].windows), Records(new[t].windows))

\* C35: an event other than the SwapMaster and MoveWindow keys keeps, in
\* every tag's list, the relative order of the records that remain, and a
\* record it adds comes after all the records the list had; so do a
\* ChangeRatio key and a refresh from every state.
C35_OrderKept ==
    /\ pc = "seen" /\ ~SeenKey("SwapMaster") /\ ~SeenKey("MoveWindow")
          => AllOrderKept(ev.before.tags, tags)
    /\ AllOrderKept(tags, handle_keypress(World, ChangeRatio(5)).tags)
    /\ AllOrderKept(tags, refresh(World).tags)

\* C35 witness: client 102 was adopted into a tag that held 101 and its
\* record is the last of the list, after 101.
C35_Witness ==
    /\ Seen("MapRequest")
    /\ ev.window = 102
    /\ Ids(WindowsBefore) = <<101>>
    /\ Ids(ActiveWindows) = <<101, 102>>

(***************************************************************************)
(* SpecQueue: the server's event queue with key presses that were queued   *)
(* before the UnmapNotify events the handlers' own unmap requests cause.   *)
(* queue holds only events caused by the window manager's requests; a key  *)
(* press or a MapRequest can be handled while it is not empty.             *)
(***************************************************************************)
MaxQueue == 4

QueueTaken(s) ==
    /\ pc = "run"
    /\ Len(queue) + Len(s.gen) <= MaxQueue
    /\ Commit(s)
    /\ queue' = queue \o s.gen
    /\ UNCHANGED <<key, given, pc>>

QueueMapRequest(window) ==
    /\ get_window_state(World, window) # 0 \/ next_id < MaxAdopt
    /\ QueueTaken(handle_map_request(World, window))

QueueKeyPress(action) == QueueTaken(handle_keypress(World, action))

\* The oldest queued UnmapNotify is handled; the run is observed there or
\* goes on.
QueueUnmapNotify ==
    /\ pc = "run"
    /\ queue # <<>>
    /\ LET s == handle_unmap_notify(World, Head(queue))
       IN /\ Len(queue) - 1 + Len(s.gen) <= MaxQueue
          /\ Commit(s)
          /\ queue' = Tail(queue) \o s.gen
    /\ \/ key' = key /\ pc' = pc
       \/ /\ key' = <<[type |-> "UnmapNotify", window |-> Head(queue), arg |-> 0,
                       sent |-> <<>>, before |-> Before]>>
          /\ pc' = "seen"
    /\ UNCHANGED given

NextQueue ==
    \/ \E w \in Clients : QueueMapRequest(w)
    \/ \E a \in {SwitchTag(1), SwitchTag(NumTags), MoveWindow(NumTags)} : QueueKeyPress(a)
    \/ QueueUnmapNotify

SpecQueue == Init /\ [][NextQueue]_vars

\* C37 as stated: handling an UnmapNotify that a request of the window
\* manager caused removes no record and destroys no frame.
C37_AsStated ==
    Seen("UnmapNotify") =>
        /\ \A t \in Tags : Records(tags[t].windows) = Records(ev.before.tags[t].windows)
        /\ frames = ev.before.frames

\* The clients of the active tag's list.
ActiveClients == {ActiveWindows[i].window : i \in SeqIndices(ActiveWindows)}

\* C38 as stated: after every handled event the clients that are mapped by
\* the window manager's requests are the clients of the active tag's list,
\* and no frame of a record of an inactive tag is mapped.
C38_AsStated ==
    /\ mapped \cap Clients = ActiveClients
    /\ \A t \in Tags \ {active_tag} : \A i \in SeqIndices(tags[t].windows) :
          tags[t].windows[i].frame_window \notin mapped

\* C39 as stated: after every handled event, when the active tag's list is
\* not empty the active tag has a focus and the input focus is not on the
\* root sentinel.
C39_AsStated ==
    ActiveWindows # <<>> =>
        /\ tags[active_tag].focus # None
        /\ input_focus # PointerRoot

(***************************************************************************)
(* Properties of SpecTilerAny: the 16-bit arithmetic of the tiler.         *)
(***************************************************************************)
MaxStack == 20

\* A width and a height the subtraction did not wrap: at least 1 and no
\* more than the screen.
InScreen(w, inf) == w.width \in 1 .. inf.w /\ w.height \in 1 .. inf.h

\* C40 as stated: for every spacing the loader accepts and every number of
\* windows, W - 2G, H - 2G - B and floor(H/S) - 2G - B are not negative,
\* every width and height the tiler writes is at least 1 and did not wrap,
\* and every x and y is a signed 16-bit value.
C40_AsStated ==
    /\ pc = "tiled" =>
          \A i \in Tiled(ActiveWindows) :
              /\ InScreen(ActiveWindows[i], info)
              /\ ActiveWindows[i].x \in -32768 .. 32767
              /\ ActiveWindows[i].y \in -32768 .. 32767
              /\ info.w - 2 * info.gap >= 0
              /\ info.h - 2 * info.gap - info.bar >= 0
    /\ \A sc \in 1 .. MaxStack :
          /\ (info.h \div sc) - 2 * info.gap - info.bar >= 0
          /\ InScreen(tile_stack(WindowState(101, 201), 0, sc, info, ratio), info)

(***************************************************************************)
(* SpecTick: the event loop with the 1 Hz timer.  The timer task posts     *)
(* ticks into a channel; the loop blocks in wait_for_event, and once an    *)
(* event woke it, it reads the channel without blocking between the events *)
(* it polls, redraws the status for a tick it finds, and goes back to      *)
(* wait_for_event when no event is pending.  queue = the X events that     *)
(* arrived, given = the ticks in the channel, pc = "run" while the loop is *)
(* blocked in wait_for_event and "drain" while it polls.                   *)
(***************************************************************************)
MaxTicks == 2

XEvents ==
    {[type |-> "MapRequest", window |-> w] : w \in Clients}
        \cup {[type |-> "UnmapNotify", window |-> w] : w \in Clients}

InitTick ==
    /\ tags = EmptyTags
    /\ active_tag = 0
    /\ ratio = RATIO
    /\ info = DefaultInfo
    /\ input_focus = PointerRoot
    /\ mapped = {}
    /\ frames = {}
    /\ next_id = 0
    /\ queue = <<>>
    /\ hotkeys = <<>>
    /\ config = <<>>
    /\ key = <<>>
    /\ given = 0
    /\ pc = "run"

\* The timer task posts a tick.
TimerTick ==
    /\ given < MaxTicks
    /\ given' = given + 1
    /\ UNCHANGED <<tags, active_tag, ratio, info, input_focus, mapped, frames,
                   next_id, queue, hotkeys, config, key, pc>>

\* An event of a client arrives at the connection.
XArrives(e) ==
    /\ Len(queue) < 2
    /\ e.type = "MapRequest" =>
          next_id + Cardinality({i \in SeqIndices(queue) : queue[i].type = "MapRequest"})
              < MaxAdopt
    /\ queue' = Append(queue, e)
    /\ UNCHANGED <<tags, active_tag, ratio, info, input_focus, mapped, frames,
                   next_id, hotkeys, config, key, given, pc>>

\* handle_event for the oldest event.
HandleHead ==
    /\ LET e == Head(queue)
       IN IF e.type = "MapRequest"
          THEN Commit(handle_map_request(World, e.window))
          ELSE Commit(handle_unmap_notify([World EXCEPT !.mapped = @ \ {e.window}],
                                          e.window))
    /\ queue' = Tail(queue)

\* wait_for_event returns: the loop was blocked and an event is there.
LoopWake ==
    /\ pc = "run"
    /\ queue # <<>>
    /\ HandleHead
    /\ pc' = "drain"
    /\ UNCHANGED <<key, given>>

\* Between events: a tick is in the channel, the status is redrawn.
LoopTick ==
    /\ pc = "drain"
    /\ given > 0
    /\ given' = given - 1
    /\ UNCHANGED <<tags, active_tag, ratio, info, input_focus, mapped, frames,
                   next_id, queue, hotkeys, config, key, pc>>

\* poll_for_event: the next pending event, or none and back to
\* wait_for_event.
LoopPoll ==
    /\ pc = "drain"
    /\ given = 0
    /\ IF queue # <<>>
       THEN HandleHead /\ pc' = pc
       ELSE /\ pc' = "run"
            /\ UNCHANGED <<tags, active_tag, ratio, info, input_focus, mapped,
                           frames, next_id, queue, hotkeys, config>>
    /\ UNCHANGED <<key, given>>

LoopStep == LoopWake \/ LoopTick \/ LoopPoll

NextTick ==
    \/ TimerTick
    \/ \E e \in XEvents : XArrives(e)
    \/ LoopWake
    \/ LoopTick
    \/ LoopPoll

\* The main task runs whenever it can; nothing makes a client send events.
SpecTick == InitTick /\ [][NextTick]_vars /\ WF_vars(LoopStep)

\* C32 as stated: every tick in the channel is eventually taken and the
\* status redrawn, also when no X event arrives after it.
C32_AsStated == (given > 0) ~> (given = 0)

====
